---- MODULE Spec2Model ----
(***************************************************************************)
(* Job-array execution and submission layer of seisflows                   *)
(* (seisflows/system/cluster.py): Cluster.submit, Cluster.run and          *)
(* Cluster._run_task, with the worker pool of                              *)
(* concurrent.futures.ProcessPoolExecutor that Cluster.run drives.         *)
(*                                                                         *)
(* One behaviour is one call of submit() or of run() on a constructed      *)
(* Cluster.  Computation steps are instantaneous; time (elapsed) passes    *)
(* only while the calling thread is blocked on task processes.             *)
(*                                                                         *)
(* SpecNLCG is a sequence of calls of one NLCG object                      *)
(* (seisflows/optimize/lib/NLCG.py).                                       *)
(*                                                                         *)
(* SpecSolver is the construction and validation of one Specfem3DGlobe     *)
(* (seisflows/solver/specfem3d_globe.py) and its calls of combine() and    *)
(* smooth().                                                               *)
(*                                                                         *)
(* SpecBackend is the submission front-end over the backend variants       *)
(* Cluster and Bscc (seisflows/system/bscc.py): construction, validation   *)
(* and submit().                                                           *)
(***************************************************************************)
EXTENDS Integers, Sequences, FiniteSets, TLC

\* ---------------------------------------------------------------- bounds
MaxTasks == 3      \* largest number of tasks N of an array
MaxWorkers == 2    \* largest concurrency cap ntask_max
MaxTime == 3       \* ticks of blocked time that are observed
MaxCalls == 2      \* header calls that are observed
MaxItermax == 3    \* largest itermax of an NLCG
MaxThresh == 1     \* largest thresh of an NLCG
MaxComponent == 2  \* vector components are -MaxComponent..MaxComponent
MaxRegions == 2    \* longest `regions` string of a Specfem3DGlobe
MaxStatus == 1     \* exit statuses are 0..MaxStatus

VARIABLES
    ntask,        \* self.ntask: the number of tasks N of an array
    ntask_max,    \* self.ntask_max
    tasktime,     \* self.tasktime
    backend,      \* the other fields of the constructed backend object
    ngpus,        \* argument `ngpus` of Bscc.__init__ (the object keeps none)
    config,       \* arguments partition, submit_to, slurm_args it was built with
    header_call,  \* the last header call: operation, arguments, result
    prev_call,    \* the header call before the last one
    ncalls,       \* number of header calls made
    config_error, \* field named by the validation error, "" if none
    environs,     \* self.environs
    pc,           \* position of the calling thread in submit() / run()
    single,       \* argument `single` of run()
    login,        \* argument `login` of submit()
    files,        \* which files submit() found to exist
    copied,       \* files submit() copied to the log_files directory
    handles,      \* (funcs_fid, kwargs_fid) once written, <<>> before
    nwrites,      \* number of times the handles were written
    run_call,     \* the run-call template built by run()
    futures,      \* list of futures of run(), each named by its task id
    task,         \* per task id: state of the _run_task call
    result,       \* per task id: value returned by _run_task, <<>> if none
    status,       \* per task id: exit status of the task process, -1 if none
    cmd,          \* per task id: the command handed to subprocess.run
    launches,     \* per task id: number of task processes started for it
    log_open,     \* per task id: log file its _run_task has open, <<>> if none
    nfut,         \* index of the future the collection loop looks at next
    failed_jobs,  \* local list failed_jobs of run()
    outcome,      \* how the call ended: none, returned, exit, raised
    report,       \* items of the logger.critical report, <<>> if none
    critical,     \* number of logger.critical calls made
    submit_call,  \* the submission command built by submit()
    submit_rc,    \* exit status of the submission command, -1 before
    wait_start,   \* value of elapsed when wait(futures, ...) was entered
    elapsed,      \* ticks run() has spent blocked on the array's futures
    late,         \* task ids still outstanding after tasktime had passed
    nlcg,         \* the NLCG object: iter, itermax, thresh
    iter_file,    \* the value held by the file NLCG/iter, 0 if there is none
    nlcg_ret,     \* last NLCG call: g_new it loaded, direction and flag returned
    nlcg_loaded,  \* last NLCG call: the files it loaded
    nlcg_restart, \* last NLCG call: number of calls of restart() it made
    quiet,        \* NLCG calls made since the first call or the last restart
    solver,       \* the Specfem3DGlobe object and the arguments it was built with
    check_error,  \* exception type raised by check(), "" if none
    stripped      \* stripped_parameters of the last combine() or smooth()

vars == <<ntask, ntask_max, tasktime, backend, ngpus, config, header_call,
          prev_call, ncalls, config_error, environs, pc, single, login, files,
          copied, handles, nwrites, run_call, futures, task, result, status,
          cmd, launches, log_open, nfut, failed_jobs, outcome, report,
          critical, submit_call, submit_rc, wait_start, elapsed, late, nlcg,
          iter_file, nlcg_ret, nlcg_loaded, nlcg_restart, quiet, solver,
          check_error, stripped>>

TaskIds == 0 .. (MaxTasks - 1)
Statuses == 0 .. MaxStatus

\* ------------------------------------------------------- pure definitions

\* Workstation.task_ids(single): [0] for a single task, else 0..ntask-1
task_ids(sgl, n) ==
    IF sgl THEN <<0>> ELSE [i \in 1 .. n |-> i - 1]

\* a value that was not given (Python None)
NoneValue == "None"
\* a text that was not given; other texts are sequences of pieces
NoneText == <<"None">>

\* Python `x or ""` for a text x
or_empty(x) == IF x = NoneText THEN <<>> ELSE x

\* default of `walltime` in Cluster.__init__
DefaultWalltime == 10

\* self.path.output_log
output_log == "output_log"

\* Cluster.submit_call_header: the generic variant returns the empty string
cluster_submit_call_header == <<>>

\* Bscc.submit_call_header: the pieces joined by " "
bscc_submit_call_header ==
    <<"sbatch",
      "--job-name=", backend.title,
      "--output=", output_log,
      "--error=", output_log,
      "--ntasks=1",
      "--partition=", backend.submit_to,
      "--time=", backend.walltime>>

\* self.submit_call_header of the constructed backend
submit_call_header ==
    IF backend.system = "bscc" THEN bscc_submit_call_header
    ELSE cluster_submit_call_header

\* Cluster.run_call_header: the generic variant returns the empty string
run_call_header == ""

\* class paths of the submit and run scripts
submit_workflow == "system/runscripts/submit"
run_functions == "system/runscripts/run"

\* self.environs = environs or "": the configured value cfg, "None" standing
\* for a value that was not given
init_environs(cfg) == IF cfg \in {"None", ""} THEN "" ELSE cfg

\* values of `environs` a backend is configured with
EnvironsConfigs == {"None", "", "OMP_NUM_THREADS=1"}

\* pickle_function_list: the two handles it returns
pickle_function_list == <<"funcs_fid", "kwargs_fid">>

\* the " ".join([...]) of run(): the template, "{task_id}" left to format
build_run_call(h) ==
    <<run_call_header, run_functions, "--funcs", h[1], "--kwargs", h[2],
      "--environment", "SEISFLOWS_TASKID=", "{task_id}", ",", environs>>

\* format giving every task the task id 0
format_task_zero(call, task_id) ==
    [j \in 1 .. Len(call) |->
        IF call[j] = "{task_id}" THEN 0 ELSE call[j]]

\* run_call.format(task_id=task_id)
format(call, task_id) ==
    [j \in 1 .. Len(call) |->
        IF call[j] = "{task_id}" THEN task_id ELSE call[j]]

\* the " ".join([...]) of submit()
build_submit_call(header) ==
    <<header, submit_workflow, "--workdir", "workdir",
      "--parameter_file", "parameter_file">>

\* elements of a list
Range(s) == {s[j] : j \in 1 .. Len(s)}

\* a future is done once its call returned or raised
Done(i) == task[i] \in {"exited", "raised"}
AllDone == \A i \in Range(futures) : Done(i)
AnyRaised == \E i \in Range(futures) : task[i] = "raised"

\* worker processes of the pool that hold a call item
Busy == {i \in TaskIds : task[i] \in {"fetched", "running"}}

\* ------------------------------------------------------------------- Init

\* ntask_max or nproc() - 1, for the configured value cfg (0: not given)
init_ntask_max(cfg, ncores) == IF cfg # 0 THEN cfg ELSE ncores - 1

\* the partition table self._partitions of Bscc: its keys
bscc_partitions_with_debug ==
    {"gpu_4090", "v6_384", "amd_a8_384", "amd_a8_768", "debug"}

bscc_partitions == {"gpu_4090", "v6_384", "amd_a8_384", "amd_a8_768"}

\* values of `partition` and `submit_to` a Bscc is configured with
PartitionConfigs == bscc_partitions \cup {NoneValue, "debug"}
SubmitToConfigs == {NoneValue, "v6_384", "login"}

\* values of `slurm_args` a Slurm backend is configured with
SlurmArgsConfigs == {NoneText, <<>>, <<"--mem=4G">>}

\* values of `ngpus` a Bscc is configured with: not given, the integers
\* 0, 1, 2 and -1, and the string "2"
NgpusConfigs ==
    {[type |-> "NoneType", val |-> 0],
     [type |-> "int", val |-> 0],
     [type |-> "int", val |-> 1],
     [type |-> "int", val |-> 2],
     [type |-> "int", val |-> -1],
     [type |-> "str", val |-> 2]}

\* Python truth value of an ngpus value
truthy(g) ==
    CASE g.type = "NoneType" -> FALSE
      [] g.type = "int" -> g.val # 0
      [] OTHER -> TRUE

\* Bscc.__init__: self.slurm_args after `if ngpus and isinstance(ngpus,
\* int)`; the flag is appended to the text as it is
bscc_slurm_args(args, g) ==
    IF truthy(g) /\ g.type = "int"
       THEN or_empty(args) \o <<"--gpus=", ToString(g.val)>>
       ELSE args

\* the fields of a constructed generic Cluster
cluster_init ==
    [system |-> "cluster", title |-> "run1", walltime |-> DefaultWalltime,
     nproc |-> 1, partition |-> NoneValue, submit_to |-> NoneValue,
     slurm_args |-> NoneText]

\* Bscc.__init__: the fields of a constructed Bscc
bscc_init(part, subm, args, g) ==
    [system |-> "bscc", title |-> "run1", walltime |-> DefaultWalltime,
     nproc |-> 1, partition |-> part,
     submit_to |-> IF subm = NoneValue THEN part ELSE subm,
     slurm_args |-> bscc_slurm_args(args, g)]

\* the arguments of a backend built with none of partition, submit_to and
\* slurm_args given
no_config ==
    [partition |-> NoneValue, submit_to |-> NoneValue, slurm_args |-> NoneText]

\* the arrays held by the files g_new, g_old and p_old: vectors of one
\* integer component, and the non-zero ones
Vectors == {<<x>> : x \in -MaxComponent .. MaxComponent}
NonZeroVectors == Vectors \ {<<0>>}

\* np.dot of two vectors of the same length
RECURSIVE dot(_, _)
dot(a, b) ==
    IF a = <<>> THEN 0 ELSE a[1] * b[1] + dot(Tail(a), Tail(b))

\* the vector operations used by NLCG
minus(a, b) == [j \in 1 .. Len(a) |-> a[j] - b[j]]
neg(a) == [j \in 1 .. Len(a) |-> -a[j]]
abs(x) == IF x < 0 THEN -x ELSE x

\* a vector of rationals: the integer vector vec divided by den > 0
steepest(g_new) == [vec |-> neg(g_new), den |-> 1]

\* pollak_ribere(g_new, g_old): the quotient num/den as <<num, den>>
pollak_ribere(g_new, g_old) ==
    <<dot(g_new, minus(g_new, g_old)), dot(g_old, g_old)>>

\* p_new = -g_new + beta*p_old for beta = <<num, den>>
search_direction(g_new, beta, p_old) ==
    [vec |-> [j \in 1 .. Len(g_new) |->
                 beta[1] * p_old[j] - beta[2] * g_new[j]],
     den |-> beta[2]]

\* check_conjugacy(g_new, g_old) as <<numerator, denominator>>
check_conjugacy(g_new, g_old) ==
    <<abs(dot(g_new, g_old)), dot(g_new, g_new)>>

\* check_descent(p_new, g_new) as <<numerator, denominator>>
check_descent(p_new, g_new) ==
    <<dot(p_new.vec, g_new), p_new.den * dot(g_new, g_new)>>

\* q > k for a quotient q with a positive denominator
greater(q, k) == q[1] > k * q[2]

\* `elif self.iter > self.itermax` with the periodic restart left out
periodic_restart_never(it, itermax) == FALSE

\* `elif self.iter > self.itermax`
periodic_restart(it, itermax) == it > itermax

\* the direction returned with flag 1, were it the computed p_new
restart_direction_p_new(g_new, p_new) == p_new

\* the direction returned with flag 1: -g_new
restart_direction(g_new, p_new) == steepest(g_new)

\* NLCG.restart: the counter is set to 1 and saved to NLCG/iter
restart == [iter |-> 1, saved |-> 1]

\* NLCG.__call__ for the counter `it` before the call and the vectors held
\* by the files g_new, g_old and p_old: the counter after the call, the
\* value last saved to NLCG/iter, the value returned, the files loaded and
\* the number of restart() calls
nlcg_call(it, itermax, thresh, g_new, g_old, p_old) ==
    LET p_new == search_direction(g_new, pollak_ribere(g_new, g_old), p_old)
    IN  IF it + 1 = 1 THEN
            [iter |-> it + 1, saved |-> it + 1,
             dir |-> steepest(g_new), flag |-> 0,
             loaded |-> {"g_new"}, restarts |-> 0]
        ELSE IF periodic_restart(it + 1, itermax) THEN
            [iter |-> restart.iter, saved |-> restart.saved,
             dir |-> steepest(g_new), flag |-> 1,
             loaded |-> {"g_new"}, restarts |-> 1]
        ELSE IF greater(check_conjugacy(g_new, g_old), thresh) THEN
            [iter |-> restart.iter, saved |-> restart.saved,
             dir |-> restart_direction(g_new, p_new), flag |-> 1,
             loaded |-> {"g_new", "g_old", "p_old"}, restarts |-> 1]
        ELSE IF greater(check_descent(p_new, g_new), 0) THEN
            [iter |-> restart.iter, saved |-> restart.saved,
             dir |-> restart_direction(g_new, p_new), flag |-> 1,
             loaded |-> {"g_new", "g_old", "p_old"}, restarts |-> 1]
        ELSE
            [iter |-> it + 1, saved |-> it + 1, dir |-> p_new, flag |-> 0,
             loaded |-> {"g_new", "g_old", "p_old"}, restarts |-> 0]

\* no NLCG call has been made
NoCall ==
    /\ nlcg_ret = [g_new |-> <<0>>, dir |-> steepest(<<0>>), flag |-> 0]
    /\ nlcg_loaded = {}
    /\ nlcg_restart = 0
    /\ quiet = 0

\* no NLCG object
NoOptimizer ==
    /\ nlcg = [iter |-> 0, itermax |-> 1, thresh |-> 0]
    /\ iter_file = 0
    /\ NoCall

\* characters in ASCII order, and strings as sequences of characters
Alphabet ==
    <<"1", "2", "3", "4", "_", "a", "e", "g", "h", "o", "p", "r", "s", "t",
      "v">>
ord(c) == CHOOSE k \in 1 .. Len(Alphabet) : Alphabet[k] = c

\* a < b for two strings
RECURSIVE str_less(_, _)
str_less(a, b) ==
    IF b = <<>> THEN FALSE
    ELSE IF a = <<>> THEN TRUE
    ELSE IF a[1] = b[1] THEN str_less(Tail(a), Tail(b))
    ELSE ord(a[1]) < ord(b[1])

\* sorted(list) for a list of strings; sorted(str) is the list of its
\* characters, each a string of length one
sorted(list) == SortSeq(list, str_less)
characters(str) == [j \in 1 .. Len(str) |-> <<str[j]>>]

\* the strings of at most n characters of the set cs
RECURSIVE strings(_, _)
strings(cs, n) ==
    IF n = 0 THEN {<<>>}
    ELSE strings(cs, n - 1)
         \cup {Append(x, c) : x \in {y \in strings(cs, n - 1) : Len(y) = n - 1},
                              c \in cs}

\* values of `regions`, `smooth_type` and `materials` a solver is configured
\* with, and the _parameters the base class leaves
RegionsConfigs == strings({"1", "2", "3", "4", "a"}, MaxRegions)
SmoothTypeConfigs == {"laplacian", "gaussian", "other"}
MaterialsConfigs == {"ACOUSTIC", "elastic", "ISOTROPIC", "ANISOTROPIC", "other"}
BaseParameters == {<<>>, <<<<"r", "h", "o">>>>}

\* str.upper() of a value of `materials`
upper(m) == IF m = "elastic" THEN "ELASTIC" ELSE m

\* the parameters of lines 87-92 that are added for a material type
material_parameters(m) ==
    CASE upper(m) = "ACOUSTIC" -> <<<<"v", "p">>>>
      [] upper(m) \in {"ELASTIC", "ISOTROPIC"} ->
            <<<<"v", "p">>, <<"v", "s">>>>
      [] upper(m) = "ANISOTROPIC" ->
            <<<<"v", "p", "v">>, <<"v", "p", "h">>, <<"v", "s", "v">>,
              <<"v", "s", "h">>, <<"e", "t", "a">>>>
      [] OTHER -> <<>>

\* f"reg{reg}_{_}"
region_parameter(reg, name) == <<"r", "e", "g">> \o reg \o <<"_">> \o name

\* the list overwrite_parameters of lines 95-98
RECURSIVE overwrite_parameters(_, _)
overwrite_parameters(regs, params) ==
    IF regs = <<>> THEN <<>>
    ELSE [j \in 1 .. Len(params) |-> region_parameter(regs[1], params[j])]
         \o overwrite_parameters(Tail(regs), params)

\* Specfem3DGlobe.__init__: the fields of the constructed solver;
\* `materials` and `base` are the material type and the _parameters of the
\* base class it was built with
solver_init(regions, smooth_type, materials, base) ==
    [regions |-> regions,
     smooth_type |-> smooth_type,
     materials |-> materials,
     base |-> base,
     _regions |-> sorted(characters(regions)),
     _parameters |->
         sorted(overwrite_parameters(sorted(characters(regions)),
                                     base \o material_parameters(materials)))]

\* int(r) of a character: the digits have a value, the others raise
\* ValueError
is_digit(r) == r \in {<<"1">>, <<"2">>, <<"3">>, <<"4">>}
int(r) == ord(r[1])

\* the loop of check() over self._regions: the exception type it ends
\* with, "" if none
RECURSIVE check_regions(_)
check_regions(regs) ==
    IF regs = <<>> THEN ""
    ELSE IF ~is_digit(regs[1]) THEN "ValueError"
    ELSE IF int(regs[1]) \notin {1, 2, 3} THEN "AssertionError"
    ELSE check_regions(Tail(regs))

\* Specfem3DGlobe.check: the exception type and the parameter named by its
\* message
solver_check(sv) ==
    IF sv.smooth_type \notin {"laplacian", "gaussian"}
       THEN [error |-> "AssertionError", names |-> "smooth_type"]
    ELSE IF check_regions(sv._regions) = "AssertionError"
       THEN [error |-> "AssertionError", names |-> "regions"]
    ELSE IF check_regions(sv._regions) = "ValueError"
       THEN [error |-> "ValueError", names |-> ""]
    ELSE [error |-> "", names |-> ""]

\* stripped_parameters of combine() and smooth(): set([_[5:] for _ in
\* parameters])
strip(parameters) ==
    {SubSeq(parameters[j], 6, Len(parameters[j])) : j \in 1 .. Len(parameters)}

\* no solver object
NoSolver ==
    /\ solver = solver_init(<<>>, "laplacian", "other", <<>>)
    /\ check_error = ""
    /\ stripped = {}

\* the state of submit() and run() before either is called
InitCalls ==
    /\ config_error = ""
    /\ header_call = [op |-> "", args |-> <<>>, result |-> <<>>]
    /\ prev_call = [op |-> "", args |-> <<>>, result |-> <<>>]
    /\ ncalls = 0
    /\ files = [output_log |-> FALSE, par_file |-> FALSE, log_files |-> FALSE]
    /\ copied = {}
    /\ single = FALSE
    /\ login = FALSE
    /\ handles = <<>>
    /\ nwrites = 0
    /\ run_call = <<>>
    /\ futures = <<>>
    /\ task = [i \in TaskIds |-> "none"]
    /\ result = [i \in TaskIds |-> <<>>]
    /\ status = [i \in TaskIds |-> -1]
    /\ cmd = [i \in TaskIds |-> <<>>]
    /\ launches = [i \in TaskIds |-> 0]
    /\ log_open = [i \in TaskIds |-> <<>>]
    /\ nfut = 1
    /\ failed_jobs = <<>>
    /\ outcome = "none"
    /\ report = <<>>
    /\ critical = 0
    /\ submit_call = <<>>
    /\ submit_rc = -1
    /\ wait_start = 0
    /\ elapsed = 0
    /\ late = {}

\* a constructed and validated generic Cluster
Init ==
    /\ ntask \in 1 .. MaxTasks
    /\ \E cfg \in 0 .. MaxWorkers, ncores \in 1 .. (MaxWorkers + 1) :
          ntask_max = init_ntask_max(cfg, ncores)
    /\ tasktime \in 1 .. (MaxTime - 1)
    /\ \E cfg \in EnvironsConfigs : environs = init_environs(cfg)
    /\ backend = cluster_init
    /\ ngpus = [type |-> "NoneType", val |-> 0]
    /\ config = no_config
    /\ pc = "idle"
    /\ InitCalls
    /\ NoOptimizer
    /\ NoSolver

\* a constructed backend of either variant, not yet validated
InitBackend ==
    /\ ntask = 2
    /\ ntask_max = init_ntask_max(1, 1)
    /\ tasktime = 1
    /\ environs = init_environs(NoneValue)
    /\ \/ /\ backend = cluster_init
          /\ ngpus = [type |-> "NoneType", val |-> 0]
          /\ config = no_config
       \/ /\ ngpus \in NgpusConfigs
          /\ config \in [partition : PartitionConfigs,
                         submit_to : SubmitToConfigs,
                         slurm_args : SlurmArgsConfigs]
          /\ backend = bscc_init(config.partition, config.submit_to,
                                 config.slurm_args, ngpus)
    /\ pc = "constructed"
    /\ InitCalls
    /\ NoOptimizer
    /\ NoSolver

\* NLCG.__init__(path, thresh, itermax): the counter is read from the file
\* NLCG/iter, which an earlier execution may have left, and is 0 when there
\* is no such file
InitNLCG ==
    /\ ntask = 1
    /\ ntask_max = init_ntask_max(1, 1)
    /\ tasktime = 1
    /\ environs = init_environs(NoneValue)
    /\ backend = cluster_init
    /\ ngpus = [type |-> "NoneType", val |-> 0]
    /\ config = no_config
    /\ pc = "idle"
    /\ InitCalls
    /\ iter_file \in 0 .. (MaxItermax + 1)
    /\ \E itermax \in 1 .. MaxItermax, thresh \in 0 .. MaxThresh :
          nlcg = [iter |-> iter_file, itermax |-> itermax, thresh |-> thresh]
    /\ NoCall
    /\ NoSolver

\* Specfem3DGlobe.__init__(regions, smooth_type, materials): a constructed
\* solver, not yet validated
InitSolver ==
    /\ ntask = 1
    /\ ntask_max = init_ntask_max(1, 1)
    /\ tasktime = 1
    /\ environs = init_environs(NoneValue)
    /\ backend = cluster_init
    /\ ngpus = [type |-> "NoneType", val |-> 0]
    /\ config = no_config
    /\ pc = "constructed"
    /\ InitCalls
    /\ NoOptimizer
    /\ \E regions \in RegionsConfigs, smooth_type \in SmoothTypeConfigs,
          materials \in MaterialsConfigs, base \in BaseParameters :
          solver = solver_init(regions, smooth_type, materials, base)
    /\ check_error = ""
    /\ stripped = {}

\* ----------------------------------------------------------------- submit

\* an optional argument of run_call: not given, or given with a value
not_given(v) == [given |-> FALSE, val |-> v]
given(v) == [given |-> TRUE, val |-> v]

\* Python `x or d` for an optional argument x whose empty value is `empty`
or_default(x, empty, d) == IF x.given /\ x.val # empty THEN x.val ELSE d

\* values of the arguments `array` and `tasktime` of run_call
ArrayArgs == {not_given(<<>>), given(<<>>), given(<<0, 1>>)}
TasktimeArgs == {not_given(0), given(0), given(5)}

\* Bscc.run_call with the task array sent to the partition of the master job
bscc_run_call_on_submit_to(executable, sgl, array, tt) ==
    <<<<"sbatch">>,
      or_empty(backend.slurm_args),
      <<"--job-name=", backend.title>>,
      <<"--ntasks=", backend.nproc>>,
      <<"--partition=", backend.submit_to>>,
      <<"--time=", or_default(tt, 0, tasktime)>>,
      <<"--array=", or_default(array, <<>>, task_ids(sgl, ntask))>>,
      <<"--output=", "log_files", "/%A_%a">>,
      <<"--parsable">>,
      <<executable>>>>

\* Bscc.run_call: the list `header` that is joined by " ", one text per item
bscc_run_call(executable, sgl, array, tt) ==
    <<<<"sbatch">>,
      or_empty(backend.slurm_args),
      <<"--job-name=", backend.title>>,
      <<"--ntasks=", backend.nproc>>,
      <<"--partition=", backend.partition>>,
      <<"--time=", or_default(tt, 0, tasktime)>>,
      <<"--array=", or_default(array, <<>>, task_ids(sgl, ntask))>>,
      <<"--output=", "log_files", "/%A_%a">>,
      <<"--parsable">>,
      <<executable>>>>

\* the run header of the constructed backend: Cluster.run_call_header, or
\* Bscc.run_call with its arguments
run_header(executable, sgl, array, tt) ==
    IF backend.system = "bscc" THEN bscc_run_call(executable, sgl, array, tt)
    ELSE run_call_header

\* CallRunHeader with the GPU flag appended to self.slurm_args by the call
CallRunHeader_appends_gpus(executable, sgl, array, tt) ==
    /\ pc = "idle"
    /\ ncalls < MaxCalls
    /\ ncalls' = ncalls + 1
    /\ prev_call' = header_call
    /\ backend' = [backend EXCEPT !.slurm_args = or_empty(@) \o <<"--gpus=", "1">>]
    /\ header_call' = [op |-> "run_call",
                       args |-> <<executable, sgl, array, tt>>,
                       result |-> run_header(executable, sgl, array, tt)]
    /\ UNCHANGED <<ntask, ntask_max, tasktime, ngpus, config, config_error,
                   environs, pc, single, login, files, copied, handles,
                   nwrites, run_call, futures, task, result, status, cmd,
                   launches, log_open, nfut, failed_jobs, outcome, report,
                   critical, submit_call, submit_rc, wait_start, elapsed,
                   late, nlcg, iter_file, nlcg_ret, nlcg_loaded, nlcg_restart,
                   quiet, solver, check_error, stripped>>

\* a call of the run header: the result is returned, no field is assigned
CallRunHeader(executable, sgl, array, tt) ==
    /\ pc = "idle"
    /\ ncalls < MaxCalls
    /\ ncalls' = ncalls + 1
    /\ prev_call' = header_call
    /\ header_call' = [op |-> "run_call",
                       args |-> <<executable, sgl, array, tt>>,
                       result |-> run_header(executable, sgl, array, tt)]
    /\ UNCHANGED <<ntask, ntask_max, tasktime, backend, ngpus, config,
                   config_error, environs, pc, single, login, files, copied,
                   handles, nwrites, run_call, futures, task, result, status,
                   cmd, launches, log_open, nfut, failed_jobs, outcome,
                   report, critical, submit_call, submit_rc, wait_start,
                   elapsed, late, nlcg, iter_file, nlcg_ret, nlcg_loaded,
                   nlcg_restart, quiet, solver, check_error, stripped>>

\* a call of the submit header: the result is returned, no field is
\* assigned
CallSubmitHeader ==
    /\ pc = "idle"
    /\ ncalls < MaxCalls
    /\ ncalls' = ncalls + 1
    /\ prev_call' = header_call
    /\ header_call' = [op |-> "submit_call_header",
                       args |-> <<>>,
                       result |-> submit_call_header]
    /\ UNCHANGED <<ntask, ntask_max, tasktime, backend, ngpus, config,
                   config_error, environs, pc, single, login, files, copied,
                   handles, nwrites, run_call, futures, task, result, status,
                   cmd, launches, log_open, nfut, failed_jobs, outcome,
                   report, critical, submit_call, submit_rc, wait_start,
                   elapsed, late, nlcg, iter_file, nlcg_ret, nlcg_loaded,
                   nlcg_restart, quiet, solver, check_error, stripped>>

\* check() of the constructed backend: the field it rejects, "" if none.
\* A Bscc is rejected when its partition is not in its partition table;
\* the generic Cluster has no such field.
check(b) ==
    IF b.system = "bscc" /\ b.partition \notin bscc_partitions
       THEN "partition"
       ELSE ""

\* validation accepts the backend: the workflow may submit or run
CheckPass ==
    /\ pc = "constructed"
    /\ check(backend) = ""
    /\ pc' = "idle"
    /\ UNCHANGED <<ntask, ntask_max, tasktime, backend, ngpus, config,
                   header_call, prev_call, ncalls, config_error, environs,
                   single, login, files, copied, handles, nwrites, run_call,
                   futures, task, result, status, cmd, launches, log_open,
                   nfut, failed_jobs, outcome, report, critical, submit_call,
                   submit_rc, wait_start, elapsed, late, nlcg, iter_file,
                   nlcg_ret, nlcg_loaded, nlcg_restart, quiet, solver,
                   check_error, stripped>>

\* validation rejects the backend with an error naming the field
CheckFail ==
    /\ pc = "constructed"
    /\ check(backend) # ""
    /\ config_error' = check(backend)
    /\ pc' = "config_error"
    /\ UNCHANGED <<ntask, ntask_max, tasktime, backend, ngpus, config,
                   header_call, prev_call, ncalls, environs, single, login,
                   files, copied, handles, nwrites, run_call, futures, task,
                   result, status, cmd, launches, log_open, nfut, failed_jobs,
                   outcome, report, critical, submit_call, submit_rc,
                   wait_start, elapsed, late, nlcg, iter_file, nlcg_ret,
                   nlcg_loaded, nlcg_restart, quiet, solver, check_error,
                   stripped>>

\* submit(): the header of the submission command; with login=True the
\* workflow is run on the current node and the header is the empty string
submit_header_ignores_login(lg) == submit_call_header

submit_header(lg) == IF lg THEN <<>> ELSE submit_call_header

\* submit(): a source is copied to the log_files directory when it exists
\* and that directory exists
copy_sources(fs) ==
    {src \in {"output_log", "par_file"} : fs[src] /\ fs.log_files}

\* what the file system may hold when submit() is called
FileStates == [output_log : BOOLEAN, par_file : BOOLEAN, log_files : BOOLEAN]

\* submit(workdir, parameter_file, login=lg) up to the start of the
\* submission command: the existing files are copied, the command is built
SubmitBegin(lg, fs) ==
    /\ pc = "idle"
    /\ login' = lg
    /\ files' = fs
    /\ copied' = copy_sources(fs)
    /\ submit_call' = build_submit_call(submit_header(lg))
    /\ pc' = "submit_run"
    /\ UNCHANGED <<ntask, ntask_max, tasktime, backend, ngpus, config,
                   header_call, prev_call, ncalls, config_error, environs,
                   single, handles, nwrites, run_call, futures, task, result,
                   status, cmd, launches, log_open, nfut, failed_jobs,
                   outcome, report, critical, submit_rc, wait_start, elapsed,
                   late, nlcg, iter_file, nlcg_ret, nlcg_loaded, nlcg_restart,
                   quiet, solver, check_error, stripped>>

\* what submit() does with the exit status s of the submission command:
\* subprocess.run is called without check=True, so it returns a
\* CompletedProcess for every s and the CalledProcessError handler
\* (logger.critical, sys.exit(-1)) is never entered
submit_outcome(s) == "returned"

\* the submission command ends with exit status s and submit() returns
SubmitReturn(s) ==
    /\ pc = "submit_run"
    /\ submit_rc' = s
    /\ outcome' = submit_outcome(s)
    /\ pc' = "submitted"
    /\ UNCHANGED <<ntask, ntask_max, tasktime, backend, ngpus, config,
                   header_call, prev_call, ncalls, config_error, environs,
                   single, login, files, copied, handles, nwrites, run_call,
                   futures, task, result, status, cmd, launches, log_open,
                   nfut, failed_jobs, report, critical, submit_call,
                   wait_start, elapsed, late, nlcg, iter_file, nlcg_ret,
                   nlcg_loaded, nlcg_restart, quiet, solver, check_error,
                   stripped>>

\* -------------------------------------------------------------------- run

\* run(funcs, single=True): the work unit is pickled, the template is built
\* and _run_task(run_call, task_id=0) is called in the calling thread
RunSingle ==
    /\ pc = "idle"
    /\ single' = TRUE
    /\ handles' = pickle_function_list
    /\ nwrites' = nwrites + 1
    /\ run_call' = build_run_call(pickle_function_list)
    /\ task' = [task EXCEPT ![0] = "fetched"]
    /\ pc' = "single_call"
    /\ UNCHANGED <<ntask, ntask_max, tasktime, backend, ngpus, config,
                   header_call, prev_call, ncalls, config_error, environs,
                   login, files, copied, futures, result, status, cmd,
                   launches, log_open, nfut, failed_jobs, outcome, report,
                   critical, submit_call, submit_rc, wait_start, elapsed,
                   late, nlcg, iter_file, nlcg_ret, nlcg_loaded, nlcg_restart,
                   quiet, solver, check_error, stripped>>

\* RunArray with the futures submitted before the work unit is pickled
RunArray_submit_before_pickle ==
    /\ pc = "idle"
    /\ ntask_max >= 1
    /\ single' = FALSE
    /\ run_call' = build_run_call(pickle_function_list)
    /\ futures' = task_ids(FALSE, ntask)
    /\ task' = [i \in TaskIds |->
                  IF i \in Range(task_ids(FALSE, ntask))
                     THEN "queued" ELSE task[i]]
    /\ pc' = "shutdown"
    /\ UNCHANGED <<ntask, ntask_max, tasktime, backend, ngpus, config,
                   header_call, prev_call, ncalls, config_error, environs,
                   login, files, copied, handles, nwrites, result, status,
                   cmd, launches, log_open, nfut, failed_jobs, outcome,
                   report, critical, submit_call, submit_rc, wait_start,
                   elapsed, late, nlcg, iter_file, nlcg_ret, nlcg_loaded,
                   nlcg_restart, quiet, solver, check_error, stripped>>

\* run(funcs, single=False) with a usable pool size: the pool is created
\* and one future per task id is submitted, in the order of task_ids; the
\* calling thread then leaves the `with` block, which is
\* executor.shutdown(wait=True)
RunArray ==
    /\ pc = "idle"
    /\ ntask_max >= 1
    /\ single' = FALSE
    /\ handles' = pickle_function_list
    /\ nwrites' = nwrites + 1
    /\ run_call' = build_run_call(pickle_function_list)
    /\ futures' = task_ids(FALSE, ntask)
    /\ task' = [i \in TaskIds |->
                  IF i \in Range(task_ids(FALSE, ntask))
                     THEN "queued" ELSE task[i]]
    /\ pc' = "shutdown"
    /\ UNCHANGED <<ntask, ntask_max, tasktime, backend, ngpus, config,
                   header_call, prev_call, ncalls, config_error, environs,
                   login, files, copied, result, status, cmd, launches,
                   log_open, nfut, failed_jobs, outcome, report, critical,
                   submit_call, submit_rc, wait_start, elapsed, late, nlcg,
                   iter_file, nlcg_ret, nlcg_loaded, nlcg_restart, quiet,
                   solver, check_error, stripped>>

\* run(funcs, single=False) when ntask_max < 1:
\* ProcessPoolExecutor(max_workers=...) raises ValueError
RunArrayBadPool ==
    /\ pc = "idle"
    /\ ntask_max < 1
    /\ single' = FALSE
    /\ handles' = pickle_function_list
    /\ nwrites' = nwrites + 1
    /\ run_call' = build_run_call(pickle_function_list)
    /\ outcome' = "raised"
    /\ pc' = "done"
    /\ UNCHANGED <<ntask, ntask_max, tasktime, backend, ngpus, config,
                   header_call, prev_call, ncalls, config_error, environs,
                   login, files, copied, futures, task, result, status, cmd,
                   launches, log_open, nfut, failed_jobs, report, critical,
                   submit_call, submit_rc, wait_start, elapsed, late, nlcg,
                   iter_file, nlcg_ret, nlcg_loaded, nlcg_restart, quiet,
                   solver, check_error, stripped>>

\* ------------------------------------------------- the pool and _run_task

\* worker_free with the cap off by one
worker_free_off_by_one == Cardinality(Busy) <= ntask_max

\* a worker of ProcessPoolExecutor(max_workers=ntask_max) is idle
worker_free == Cardinality(Busy) < ntask_max

\* the call queue handing out its items in any order
next_queued_any_order(i) == task[i] = "queued"

\* the call queue of the pool is first in, first out, and the futures were
\* submitted in the order of task_ids: i is the oldest queued call item
next_queued(i) ==
    /\ task[i] = "queued"
    /\ \A j \in TaskIds : j < i => task[j] # "queued"

\* an idle worker takes the oldest queued call item
Fetch(i) ==
    /\ pc = "shutdown"
    /\ next_queued(i)
    /\ worker_free
    /\ task' = [task EXCEPT ![i] = "fetched"]
    /\ UNCHANGED <<ntask, ntask_max, tasktime, backend, ngpus, config,
                   header_call, prev_call, ncalls, config_error, environs, pc,
                   single, login, files, copied, handles, nwrites, run_call,
                   futures, result, status, cmd, launches, log_open, nfut,
                   failed_jobs, outcome, report, critical, submit_call,
                   submit_rc, wait_start, elapsed, late, nlcg, iter_file,
                   nlcg_ret, nlcg_loaded, nlcg_restart, quiet, solver,
                   check_error, stripped>>

\* Workstation._get_log_file(task_id): the log file of a task, one per id
get_log_file(task_id) == <<"log_files", task_id>>

\* Launch with one log file opened by every task
Launch_shared_log(i) ==
    /\ task[i] = "fetched"
    /\ task' = [task EXCEPT ![i] = "running"]
    /\ log_open' = [log_open EXCEPT ![i] = get_log_file(0)]
    /\ cmd' = [cmd EXCEPT ![i] = format(run_call, i)]
    /\ launches' = [launches EXCEPT ![i] = launches[i] + 1]
    /\ UNCHANGED <<ntask, ntask_max, tasktime, backend, ngpus, config,
                   header_call, prev_call, ncalls, config_error, environs, pc,
                   single, login, files, copied, handles, nwrites, run_call,
                   futures, result, status, nfut, failed_jobs, outcome,
                   report, critical, submit_call, submit_rc, wait_start,
                   elapsed, late, nlcg, iter_file, nlcg_ret, nlcg_loaded,
                   nlcg_restart, quiet, solver, check_error, stripped>>

\* _run_task: the log file is opened and subprocess.run starts the task
\* process with the formatted run call, its stdout being the log file
Launch(i) ==
    /\ task[i] = "fetched"
    /\ task' = [task EXCEPT ![i] = "running"]
    /\ log_open' = [log_open EXCEPT ![i] = get_log_file(i)]
    /\ cmd' = [cmd EXCEPT ![i] = format(run_call, i)]
    /\ launches' = [launches EXCEPT ![i] = launches[i] + 1]
    /\ UNCHANGED <<ntask, ntask_max, tasktime, backend, ngpus, config,
                   header_call, prev_call, ncalls, config_error, environs, pc,
                   single, login, files, copied, handles, nwrites, run_call,
                   futures, result, status, nfut, failed_jobs, outcome,
                   report, critical, submit_call, submit_rc, wait_start,
                   elapsed, late, nlcg, iter_file, nlcg_ret, nlcg_loaded,
                   nlcg_restart, quiet, solver, check_error, stripped>>

\* _run_task: the task process cannot be started (open() or subprocess.run
\* raises OSError; after a failed open() the `finally: f.close()` raises
\* UnboundLocalError): the call ends with an exception
LaunchRaise(i) ==
    /\ task[i] = "fetched"
    /\ task' = [task EXCEPT ![i] = "raised"]
    /\ UNCHANGED <<ntask, ntask_max, tasktime, backend, ngpus, config,
                   header_call, prev_call, ncalls, config_error, environs, pc,
                   single, login, files, copied, handles, nwrites, run_call,
                   futures, result, status, cmd, launches, log_open, nfut,
                   failed_jobs, outcome, report, critical, submit_call,
                   submit_rc, wait_start, elapsed, late, nlcg, iter_file,
                   nlcg_ret, nlcg_loaded, nlcg_restart, quiet, solver,
                   check_error, stripped>>

\* _run_task starting the task process again after a non-zero exit status
after_exit_retry(s) == IF s # 0 THEN "fetched" ELSE "exited"

\* state of the _run_task call once its task process has ended with exit
\* status s: subprocess.run is called once and the call returns, whatever s
after_exit(s) == "exited"

\* value returned by _run_task: (task_id, result.returncode)
run_task_result(task_id, returncode) == <<task_id, returncode>>

\* _run_task: the task process ends with exit status s; subprocess.run is
\* called without check=True, so every s is returned, none raises; the
\* `finally` closes the log file
TaskExit(i, s) ==
    /\ task[i] = "running"
    /\ log_open' = [log_open EXCEPT ![i] = <<>>]
    /\ task' = [task EXCEPT ![i] = after_exit(s)]
    /\ status' = [status EXCEPT ![i] = s]
    /\ result' = [result EXCEPT ![i] = run_task_result(i, s)]
    /\ UNCHANGED <<ntask, ntask_max, tasktime, backend, ngpus, config,
                   header_call, prev_call, ncalls, config_error, environs, pc,
                   single, login, files, copied, handles, nwrites, run_call,
                   futures, cmd, launches, nfut, failed_jobs, outcome, report,
                   critical, submit_call, submit_rc, wait_start, elapsed,
                   late, nlcg, iter_file, nlcg_ret, nlcg_loaded, nlcg_restart,
                   quiet, solver, check_error, stripped>>

\* ------------------------------------------- run: waiting and the verdict

\* a shutdown that waits for results only: it hangs on a call that raised
shutdown_returns_all_exited == \A i \in Range(futures) : task[i] = "exited"

\* leaving `with ProcessPoolExecutor(...) as executor:` is
\* executor.shutdown(wait=True): it returns once every submitted future is
\* done, and takes no timeout
shutdown_returns == AllDone

ShutdownReturn ==
    /\ pc = "shutdown"
    /\ shutdown_returns
    /\ wait_start' = elapsed
    /\ pc' = "wait"
    /\ UNCHANGED <<ntask, ntask_max, tasktime, backend, ngpus, config,
                   header_call, prev_call, ncalls, config_error, environs,
                   single, login, files, copied, handles, nwrites, run_call,
                   futures, task, result, status, cmd, launches, log_open,
                   nfut, failed_jobs, outcome, report, critical, submit_call,
                   submit_rc, elapsed, late, nlcg, iter_file, nlcg_ret,
                   nlcg_loaded, nlcg_restart, quiet, solver, check_error,
                   stripped>>

\* wait(futures, timeout=self.tasktime, return_when="FIRST_EXCEPTION")
\* returns when every future is done, when one has raised, or when tasktime
\* has passed since it was entered
wait_returns ==
    \/ AllDone
    \/ AnyRaised
    \/ elapsed - wait_start >= tasktime

WaitReturn ==
    /\ pc = "wait"
    /\ wait_returns
    /\ pc' = "collect"
    /\ UNCHANGED <<ntask, ntask_max, tasktime, backend, ngpus, config,
                   header_call, prev_call, ncalls, config_error, environs,
                   single, login, files, copied, handles, nwrites, run_call,
                   futures, task, result, status, cmd, launches, log_open,
                   nfut, failed_jobs, outcome, report, critical, submit_call,
                   submit_rc, wait_start, elapsed, late, nlcg, iter_file,
                   nlcg_ret, nlcg_loaded, nlcg_restart, quiet, solver,
                   check_error, stripped>>

\* the loop left at the first failed job
loop_done_fail_fast == nfut > Len(futures) \/ failed_jobs # <<>>

\* `for future in futures` has run out of futures
loop_done == nfut > Len(futures)

\* collect appending the return code in place of the job id
collect_return_code(fj, res) ==
    IF res[2] # 0 THEN Append(fj, res[2]) ELSE fj

\* body of the loop for one result: job_id, return_code = future.result();
\* if return_code != 0: failed_jobs.append(job_id)
collect(fj, res) ==
    IF res[2] # 0 THEN Append(fj, res[1]) ELSE fj

\* future.result() of a future whose call returned
CollectResult ==
    /\ pc = "collect"
    /\ ~loop_done
    /\ task[futures[nfut]] = "exited"
    /\ failed_jobs' = collect(failed_jobs, result[futures[nfut]])
    /\ nfut' = nfut + 1
    /\ UNCHANGED <<ntask, ntask_max, tasktime, backend, ngpus, config,
                   header_call, prev_call, ncalls, config_error, environs, pc,
                   single, login, files, copied, handles, nwrites, run_call,
                   futures, task, result, status, cmd, launches, log_open,
                   outcome, report, critical, submit_call, submit_rc,
                   wait_start, elapsed, late, nlcg, iter_file, nlcg_ret,
                   nlcg_loaded, nlcg_restart, quiet, solver, check_error,
                   stripped>>

\* CollectRaise with the exception of the future dropped: the loop goes on
CollectRaise_swallowed ==
    /\ pc = "collect"
    /\ ~loop_done
    /\ task[futures[nfut]] = "raised"
    /\ nfut' = nfut + 1
    /\ UNCHANGED <<ntask, ntask_max, tasktime, backend, ngpus, config,
                   header_call, prev_call, ncalls, config_error, environs, pc,
                   single, login, files, copied, handles, nwrites, run_call,
                   futures, task, result, status, cmd, launches, log_open,
                   failed_jobs, outcome, report, critical, submit_call,
                   submit_rc, wait_start, elapsed, late, nlcg, iter_file,
                   nlcg_ret, nlcg_loaded, nlcg_restart, quiet, solver,
                   check_error, stripped>>

\* future.result() of a future whose call raised: the exception is raised
\* again in run() and leaves it
CollectRaise ==
    /\ pc = "collect"
    /\ ~loop_done
    /\ task[futures[nfut]] = "raised"
    /\ outcome' = "raised"
    /\ pc' = "done"
    /\ UNCHANGED <<ntask, ntask_max, tasktime, backend, ngpus, config,
                   header_call, prev_call, ncalls, config_error, environs,
                   single, login, files, copied, handles, nwrites, run_call,
                   futures, task, result, status, cmd, launches, log_open,
                   nfut, failed_jobs, report, critical, submit_call,
                   submit_rc, wait_start, elapsed, late, nlcg, iter_file,
                   nlcg_ret, nlcg_loaded, nlcg_restart, quiet, solver,
                   check_error, stripped>>

\* `if failed_jobs is not None:`
has_failed_not_none(fj) == Len(fj) >= 0

\* `if failed_jobs:`
has_failed(fj) == fj # <<>>

\* after the loop, failed_jobs is not empty: logger.critical with the items
\* RUN CALL and TASK IDS, then sys.exit(-1)
RunFail ==
    /\ pc = "collect"
    /\ loop_done
    /\ has_failed(failed_jobs)
    /\ report' = <<run_call, failed_jobs>>
    /\ critical' = critical + 1
    /\ outcome' = "exit"
    /\ pc' = "done"
    /\ UNCHANGED <<ntask, ntask_max, tasktime, backend, ngpus, config,
                   header_call, prev_call, ncalls, config_error, environs,
                   single, login, files, copied, handles, nwrites, run_call,
                   futures, task, result, status, cmd, launches, log_open,
                   nfut, failed_jobs, submit_call, submit_rc, wait_start,
                   elapsed, late, nlcg, iter_file, nlcg_ret, nlcg_loaded,
                   nlcg_restart, quiet, solver, check_error, stripped>>

\* after the loop, failed_jobs is empty: run() returns
RunReturn ==
    /\ pc = "collect"
    /\ loop_done
    /\ ~has_failed(failed_jobs)
    /\ outcome' = "returned"
    /\ pc' = "done"
    /\ UNCHANGED <<ntask, ntask_max, tasktime, backend, ngpus, config,
                   header_call, prev_call, ncalls, config_error, environs,
                   single, login, files, copied, handles, nwrites, run_call,
                   futures, task, result, status, cmd, launches, log_open,
                   nfut, failed_jobs, report, critical, submit_call,
                   submit_rc, wait_start, elapsed, late, nlcg, iter_file,
                   nlcg_ret, nlcg_loaded, nlcg_restart, quiet, solver,
                   check_error, stripped>>

\* the task process started and not waited for
single_call_not_waited == task[0] \in {"running", "exited"}

\* single: the call self._run_task(run_call=run_call, task_id=0) has
\* returned, which is when subprocess.run has returned
single_call_returned == task[0] = "exited"

\* single: _run_task returned; its value is dropped and run() returns
SingleReturn ==
    /\ pc = "single_call"
    /\ single_call_returned
    /\ outcome' = "returned"
    /\ pc' = "done"
    /\ UNCHANGED <<ntask, ntask_max, tasktime, backend, ngpus, config,
                   header_call, prev_call, ncalls, config_error, environs,
                   single, login, files, copied, handles, nwrites, run_call,
                   futures, task, result, status, cmd, launches, log_open,
                   nfut, failed_jobs, report, critical, submit_call,
                   submit_rc, wait_start, elapsed, late, nlcg, iter_file,
                   nlcg_ret, nlcg_loaded, nlcg_restart, quiet, solver,
                   check_error, stripped>>

\* single: _run_task raised; the exception leaves run()
SingleRaise ==
    /\ pc = "single_call"
    /\ task[0] = "raised"
    /\ outcome' = "raised"
    /\ pc' = "done"
    /\ UNCHANGED <<ntask, ntask_max, tasktime, backend, ngpus, config,
                   header_call, prev_call, ncalls, config_error, environs,
                   single, login, files, copied, handles, nwrites, run_call,
                   futures, task, result, status, cmd, launches, log_open,
                   nfut, failed_jobs, report, critical, submit_call,
                   submit_rc, wait_start, elapsed, late, nlcg, iter_file,
                   nlcg_ret, nlcg_loaded, nlcg_restart, quiet, solver,
                   check_error, stripped>>

\* ------------------------------------------------------------------- time

\* run() is blocked on the array: in shutdown(wait=True), in wait(), or in
\* future.result() of a future that is not done
Blocked ==
    \/ pc = "shutdown" /\ ~shutdown_returns
    \/ pc = "wait" /\ ~wait_returns
    \/ pc = "collect" /\ ~loop_done /\ ~Done(futures[nfut])

\* futures that are not done
Outstanding == {i \in Range(futures) : ~Done(i)}

\* Tick with the tasks that overrun tasktime terminated by the dispatcher
Tick_kill_overrun ==
    /\ Blocked
    /\ elapsed < MaxTime
    /\ elapsed' = elapsed + 1
    /\ late' = IF elapsed = tasktime THEN Outstanding ELSE late
    /\ task' = [i \in TaskIds |->
                  IF elapsed + 1 >= tasktime /\ task[i] = "running"
                     THEN "exited" ELSE task[i]]
    /\ UNCHANGED <<ntask, ntask_max, tasktime, backend, ngpus, config,
                   header_call, prev_call, ncalls, config_error, environs, pc,
                   single, login, files, copied, handles, nwrites, run_call,
                   futures, result, status, cmd, launches, log_open, nfut,
                   failed_jobs, outcome, report, critical, submit_call,
                   submit_rc, wait_start, nlcg, iter_file, nlcg_ret,
                   nlcg_loaded, nlcg_restart, quiet, solver, check_error,
                   stripped>>

\* one unit of time passes while run() is blocked; the futures that are
\* still outstanding one unit after tasktime was reached are remembered
Tick ==
    /\ Blocked
    /\ elapsed < MaxTime
    /\ elapsed' = elapsed + 1
    /\ late' = IF elapsed = tasktime THEN Outstanding ELSE late
    /\ UNCHANGED <<ntask, ntask_max, tasktime, backend, ngpus, config,
                   header_call, prev_call, ncalls, config_error, environs, pc,
                   single, login, files, copied, handles, nwrites, run_call,
                   futures, task, result, status, cmd, launches, log_open,
                   nfut, failed_jobs, outcome, report, critical, submit_call,
                   submit_rc, wait_start, nlcg, iter_file, nlcg_ret,
                   nlcg_loaded, nlcg_restart, quiet, solver, check_error,
                   stripped>>

\* ------------------------------------------------------------------- Next

Next ==
    \/ \E lg \in BOOLEAN, fs \in FileStates : SubmitBegin(lg, fs)
    \/ \E s \in Statuses : SubmitReturn(s)
    \/ RunSingle
    \/ RunArray
    \/ RunArrayBadPool
    \/ \E i \in TaskIds : Fetch(i)
    \/ \E i \in TaskIds : Launch(i)
    \/ \E i \in TaskIds : LaunchRaise(i)
    \/ \E i \in TaskIds, s \in Statuses : TaskExit(i, s)
    \/ ShutdownReturn
    \/ WaitReturn
    \/ CollectResult
    \/ CollectRaise
    \/ RunFail
    \/ RunReturn
    \/ SingleReturn
    \/ SingleRaise
    \/ Tick

Spec == Init /\ [][Next]_vars

\* the steps of run() in the calling thread once the array is submitted
RunStep ==
    \/ ShutdownReturn
    \/ WaitReturn
    \/ CollectResult
    \/ CollectRaise
    \/ RunFail
    \/ RunReturn

\* the calling thread runs whenever it is not blocked, every pool worker
\* that can take or start a call does so, and every task process that was
\* started ends with some exit status
Fairness ==
    /\ WF_vars(RunStep)
    /\ \A i \in TaskIds : WF_vars(Fetch(i))
    /\ \A i \in TaskIds : WF_vars(Launch(i) \/ LaunchRaise(i))
    /\ \A i \in TaskIds : WF_vars(\E s \in Statuses : TaskExit(i, s))

\* a validated generic Cluster with the default tasktime and environs,
\* which no step of the scheduling depends on
InitLive ==
    /\ Init
    /\ tasktime = 1
    /\ environs = init_environs("")

\* run() and submit() under the scheduling above
SpecLive == InitLive /\ [][Next]_vars /\ Fairness

\* one call of the NLCG object, the files g_new, g_old and p_old holding
\* non-zero vectors: the counter is saved after the increment and again by
\* restart()
NLCG_Call(g_new, g_old, p_old) ==
    LET r == nlcg_call(nlcg.iter, nlcg.itermax, nlcg.thresh,
                       g_new, g_old, p_old)
    IN  /\ pc = "idle"
        /\ nlcg' = [nlcg EXCEPT !.iter = r.iter]
        /\ iter_file' = r.saved
        /\ nlcg_ret' = [g_new |-> g_new, dir |-> r.dir, flag |-> r.flag]
        /\ nlcg_loaded' = r.loaded
        /\ nlcg_restart' = r.restarts
        /\ quiet' = IF r.restarts > 0 \/ nlcg.iter = 0 THEN 0 ELSE quiet + 1
        /\ UNCHANGED <<ntask, ntask_max, tasktime, backend, ngpus, config,
                   header_call, prev_call, ncalls, config_error, environs, pc,
                   single, login, files, copied, handles, nwrites, run_call,
                   futures, task, result, status, cmd, launches, log_open,
                   nfut, failed_jobs, outcome, report, critical, submit_call,
                   submit_rc, wait_start, elapsed, late, solver, check_error,
                   stripped>>

NextNLCG ==
    \E g_new, g_old, p_old \in NonZeroVectors :
        NLCG_Call(g_new, g_old, p_old)

SpecNLCG == InitNLCG /\ [][NextNLCG]_vars

\* check() of the solver returns: the solver is accepted
SolverCheckPass ==
    /\ pc = "constructed"
    /\ solver_check(solver).error = ""
    /\ pc' = "idle"
    /\ UNCHANGED <<ntask, ntask_max, tasktime, backend, ngpus, config,
                   header_call, prev_call, ncalls, config_error, environs,
                   single, login, files, copied, handles, nwrites, run_call,
                   futures, task, result, status, cmd, launches, log_open,
                   nfut, failed_jobs, outcome, report, critical, submit_call,
                   submit_rc, wait_start, elapsed, late, nlcg, iter_file,
                   nlcg_ret, nlcg_loaded, nlcg_restart, quiet, solver,
                   check_error, stripped>>

\* check() of the solver raises
SolverCheckFail ==
    /\ pc = "constructed"
    /\ solver_check(solver).error # ""
    /\ check_error' = solver_check(solver).error
    /\ config_error' = solver_check(solver).names
    /\ pc' = "config_error"
    /\ UNCHANGED <<ntask, ntask_max, tasktime, backend, ngpus, config,
                   header_call, prev_call, ncalls, environs, single, login,
                   files, copied, handles, nwrites, run_call, futures, task,
                   result, status, cmd, launches, log_open, nfut, failed_jobs,
                   outcome, report, critical, submit_call, submit_rc,
                   wait_start, elapsed, late, nlcg, iter_file, nlcg_ret,
                   nlcg_loaded, nlcg_restart, quiet, solver, stripped>>

\* combine(input_path, output_path) with the default parameters
Combine ==
    /\ pc = "idle"
    /\ stripped' = strip(solver._parameters)
    /\ pc' = "combined"
    /\ UNCHANGED <<ntask, ntask_max, tasktime, backend, ngpus, config,
                   header_call, prev_call, ncalls, config_error, environs,
                   single, login, files, copied, handles, nwrites, run_call,
                   futures, task, result, status, cmd, launches, log_open,
                   nfut, failed_jobs, outcome, report, critical, submit_call,
                   submit_rc, wait_start, elapsed, late, nlcg, iter_file,
                   nlcg_ret, nlcg_loaded, nlcg_restart, quiet, solver,
                   check_error>>

\* smooth(input_path, output_path) with the default parameters
Smooth ==
    /\ pc = "idle"
    /\ stripped' = strip(solver._parameters)
    /\ pc' = "smoothed"
    /\ UNCHANGED <<ntask, ntask_max, tasktime, backend, ngpus, config,
                   header_call, prev_call, ncalls, config_error, environs,
                   single, login, files, copied, handles, nwrites, run_call,
                   futures, task, result, status, cmd, launches, log_open,
                   nfut, failed_jobs, outcome, report, critical, submit_call,
                   submit_rc, wait_start, elapsed, late, nlcg, iter_file,
                   nlcg_ret, nlcg_loaded, nlcg_restart, quiet, solver,
                   check_error>>

NextSolver ==
    \/ SolverCheckPass
    \/ SolverCheckFail
    \/ Combine
    \/ Smooth

SpecSolver == InitSolver /\ [][NextSolver]_vars

\* construction, validation and submit() over the backend variants
NextBackend ==
    \/ CheckPass
    \/ CheckFail
    \/ \E lg \in BOOLEAN, fs \in FileStates : SubmitBegin(lg, fs)
    \/ \E s \in Statuses : SubmitReturn(s)

SpecBackend == InitBackend /\ [][NextBackend]_vars

\* construction, validation and calls of the two headers
NextHeaders ==
    \/ CheckPass
    \/ CheckFail
    \/ CallSubmitHeader
    \/ \E sgl \in BOOLEAN, array \in ArrayArgs, tt \in TasktimeArgs :
          CallRunHeader("exe", sgl, array, tt)

SpecHeaders == InitBackend /\ [][NextHeaders]_vars

\* ------------------------------------------------------------ properties

\* task ids an array run dispatches
Dispatched == 0 .. (ntask - 1)
\* task processes in the running state
Running == {i \in TaskIds : task[i] = "running"}
\* dispatched task ids whose process ended with a non-zero exit status
NonZero == {i \in Dispatched : status[i] > 0}
\* an array run has ended and every dispatched task has an exit status
ArrayEnded ==
    /\ pc = "done"
    /\ ~single
    /\ \A i \in Dispatched : task[i] = "exited"

\* C1: in an array dispatch whose tasks all have an exit status, the task
\* ids reported as failed are exactly the dispatched ids with a non-zero
\* status (each once), the report carries the run-call template, and the
\* program exits (sys.exit(-1)) if and only if that set is not empty.
C1_FailedSetExact ==
    ArrayEnded =>
        /\ Range(failed_jobs) = NonZero
        /\ Len(failed_jobs) = Cardinality(NonZero)
        /\ (outcome = "exit") <=> (NonZero # {})
        /\ (outcome = "returned") <=> (NonZero = {})
        /\ NonZero # {} =>
              /\ report = <<run_call, failed_jobs>>
              /\ run_call = build_run_call(handles)
              /\ run_call # <<>>
        /\ NonZero = {} => report = <<>>

C1_Witness ==
    /\ ArrayEnded
    /\ ntask >= 3
    /\ outcome = "exit"
    /\ status[0] > 0
    /\ status[1] = 0
    /\ status[2] > 0

\* C2: for every N >= 1, an array dispatch whose N tasks all exit with
\* status 0 returns normally, with no report and no program exit, after
\* collecting exactly N results, one per task id 0..N-1, each with status 0.
C2_AllZeroSuccess ==
    (ArrayEnded /\ \A i \in Dispatched : status[i] = 0) =>
        /\ outcome = "returned"
        /\ critical = 0
        /\ futures = [j \in 1 .. ntask |-> j - 1]
        /\ nfut - 1 = ntask
        /\ \A i \in Dispatched : result[i] = <<i, 0>>
        /\ \A i \in TaskIds \ Dispatched : task[i] = "none"

C2_Witness ==
    /\ ArrayEnded
    /\ ntask >= 3
    /\ \A i \in Dispatched : status[i] = 0
    /\ outcome = "returned"

\* C3: in every state of an array dispatch with ntask_max = k, at most k
\* task processes are in the running state.
C3_ConcurrencyBound ==
    ~single => Cardinality(Running) <= ntask_max

C3_Witness ==
    /\ ~single
    /\ ntask > ntask_max
    /\ ntask_max >= 2
    /\ Cardinality(Running) = ntask_max
    /\ \E i \in Dispatched : task[i] = "queued"

\* C4: in an array dispatch run() does not stay blocked on the array past
\* the tasktime budget: when it goes on to its verdict, at most tasktime
\* has elapsed since it began to wait.
C4_NoBlockPastTasktime ==
    (~single /\ pc \in {"collect", "done"}) => elapsed <= tasktime

\* C5: a task still outstanding when the tasktime bound is reached (here:
\* still outstanding one unit of time later) is never counted as successful: run() does not return normally, and a failure
\* report lists that task id.
C5_LateTaskNotSuccess ==
    (~single /\ pc = "done" /\ late # {}) =>
        /\ outcome # "returned"
        /\ outcome = "exit" => late \subseteq Range(failed_jobs)

\* C6: run() returns normally only if every dispatched task id reported a
\* zero exit status, in single dispatch (task id 0) as in array dispatch.
C6_SuccessOnlyIfAllZero ==
    (pc = "done" /\ outcome = "returned") =>
        \A i \in (IF single THEN {0} ELSE Dispatched) : status[i] = 0

\* C7: when the submission command exits with a non-zero status, submit()
\* logs the failure and exits the program; it does not return normally.
C7_SubmitFailureFatal ==
    (pc = "submitted" /\ submit_rc # 0) =>
        /\ outcome = "exit"
        /\ critical >= 1

\* C8: with single=True, whatever N is, run() starts no task process other
\* than the one of task id 0, started with the run call formatted for task
\* id 0, and run() returns only after that one process has ended.
C8_SingleRunsTaskZero ==
    single =>
        /\ futures = <<>>
        /\ \A i \in TaskIds \ {0} : task[i] = "none" /\ cmd[i] = <<>>
        /\ cmd[0] # <<>> =>
              \A j \in 1 .. Len(run_call) :
                 cmd[0][j] = IF run_call[j] = "{task_id}" THEN 0
                             ELSE run_call[j]
        /\ outcome = "returned" =>
              /\ task[0] = "exited"
              /\ status[0] \in Statuses
              /\ cmd[0] # <<>>

C8_Witness ==
    /\ single
    /\ ntask >= 3
    /\ pc = "done"
    /\ outcome = "returned"

\* C9: a task that exits non-zero is not immediately fatal to the array:
\* while run() waits nothing is reported, once the wait is over every
\* dispatched task id has been launched and has ended, and the program exit
\* for failure comes only after every result was collected, with a single
\* report that lists all failed task ids.
C9_FailureNotImmediatelyFatal ==
    /\ critical <= 1
    /\ pc \in {"shutdown", "wait"} => outcome = "none" /\ critical = 0
    /\ (~single /\ (pc \in {"wait", "collect"}
                     \/ (pc = "done" /\ futures # <<>>))) =>
          \A i \in Dispatched : Done(i)
    /\ outcome = "exit" =>
          /\ pc = "done"
          /\ nfut = ntask + 1
          /\ \A i \in Dispatched : task[i] = "exited"
          /\ critical = 1
          /\ report = <<run_call, failed_jobs>>
          /\ Range(failed_jobs) = NonZero

C9_Witness ==
    /\ outcome = "exit"
    /\ ntask >= 3
    /\ status[0] > 0
    /\ status[2] > 0
    /\ Len(failed_jobs) >= 2

\* C10: once a task has raised while being launched, run() is no longer
\* held in the array wait: it does not wait for the other, still running
\* tasks to end nor for the rest of the tasktime budget.
C10_FirstExceptionEndsWait ==
    AnyRaised =>
        /\ ~(pc = "shutdown" /\ ~shutdown_returns)
        /\ ~(pc = "wait" /\ ~wait_returns)

\* C11: in every run() the work unit is serialized exactly once, before the
\* first task is queued or launched, the commands of the tasks name the
\* written handles, and the handles are not written again in that dispatch.
C11_SerializedOnceBeforeLaunch ==
    /\ nwrites <= 1
    /\ (nwrites = 0) <=> (handles = <<>>)
    /\ \A i \in TaskIds :
          task[i] # "none" =>
              /\ nwrites = 1
              /\ handles = pickle_function_list
    /\ \A i \in TaskIds :
          cmd[i] # <<>> =>
              \E j \in 1 .. (Len(cmd[i]) - 3) :
                 /\ cmd[i][j] = "--funcs"
                 /\ cmd[i][j + 1] = handles[1]
                 /\ cmd[i][j + 2] = "--kwargs"
                 /\ cmd[i][j + 3] = handles[2]

C11_Witness ==
    /\ ~single
    /\ pc = "done"
    /\ ntask >= 2
    /\ nwrites = 1
    /\ \A i \in 0 .. (ntask - 1) : task[i] = "exited"

\* the launch of task id i has been attempted: its process was started, or
\* starting it raised
Started(i) == task[i] \in {"running", "exited", "raised"}

\* C12 as stated: within one array dispatch a task with a larger task id
\* never starts running before every smaller task id has started.
C12_StartAscending ==
    ~single =>
        \A i, j \in Range(futures) : (i < j /\ Started(j)) => Started(i)

\* C12 as amended: the futures are submitted in ascending task id order and
\* a worker never takes a task while a smaller task id is still queued;
\* with a single worker the task processes also start in ascending order.
\* Tasks held by different workers may start, and end, in either order.
C12_TakenAscending ==
    ~single =>
        /\ \A a, b \in 1 .. Len(futures) : a < b => futures[a] < futures[b]
        /\ \A i, j \in Range(futures) :
              (i < j /\ task[j] # "queued") => task[i] # "queued"
        /\ ntask_max = 1 =>
              \A i, j \in Range(futures) : (i < j /\ Started(j)) => Done(i)

C12_Witness ==
    /\ ~single
    /\ task[0] = "running"
    /\ task[1] = "exited"
    /\ task[2] = "fetched"

\* C13: within one run() a task process is started at most once for every
\* task id (none is run again after a failure), the futures of an array
\* name distinct task ids, and no two running task processes carry the same
\* task id in their command.
C13_LaunchedAtMostOnce ==
    /\ \A i \in TaskIds : launches[i] <= 1
    /\ \A i \in TaskIds : Started(i) /\ task[i] # "raised" => launches[i] = 1
    /\ \A a, b \in 1 .. Len(futures) : a # b => futures[a] # futures[b]
    /\ \A i, j \in Running : i # j => cmd[i] # cmd[j]

C13_Witness ==
    /\ ~single
    /\ pc = "done"
    /\ outcome = "exit"
    /\ ntask >= 2
    /\ status[0] > 0
    /\ \A i \in Dispatched : launches[i] = 1

\* C14: the dispatcher never terminates a task process it launched: a task
\* leaves the running state only in a step of its own exit, in which time,
\* the position of run() and every other task stay as they are; neither
\* the tasktime bound nor another task's exception or failure ends it.
C14_NoForcedTermination ==
    [][\A i \in TaskIds :
          (task[i] = "running" /\ task'[i] # "running") =>
              /\ task'[i] = "exited"
              /\ status'[i] \in Statuses
              /\ elapsed' = elapsed
              /\ pc' = pc
              /\ outcome' = outcome
              /\ \A j \in TaskIds \ {i} : task'[j] = task[j]]_vars

C14_Witness ==
    /\ ~single
    /\ elapsed > tasktime
    /\ \E i, j, k \in Dispatched :
          /\ task[i] = "running"
          /\ task[j] = "raised"
          /\ task[k] = "exited" /\ status[k] > 0

\* C16: the command executed for task id i is the run-call template with
\* the TASKID binding set to i, followed by "," and the backend's environs;
\* all commands of a dispatch come from the one template (same header, run
\* script and handles) and differ in the task id alone.
C16_OwnTaskId ==
    \A i \in TaskIds :
        cmd[i] # <<>> =>
            /\ Len(cmd[i]) = Len(run_call)
            /\ \A j \in 1 .. Len(run_call) :
                  IF run_call[j] = "{task_id}"
                     THEN /\ cmd[i][j] = i
                          /\ cmd[i][j - 1] = "SEISFLOWS_TASKID="
                          /\ cmd[i][j + 1] = ","
                          /\ cmd[i][j + 2] = environs
                     ELSE cmd[i][j] = run_call[j]
            /\ \E j \in 1 .. Len(run_call) : run_call[j] = "{task_id}"
            /\ \A k \in TaskIds :
                  (cmd[k] # <<>> /\ k # i) =>
                      \A j \in 1 .. Len(run_call) :
                         (cmd[k][j] # cmd[i][j]) => run_call[j] = "{task_id}"

C16_Witness ==
    /\ ~single
    /\ environs # ""
    /\ cmd[1] # <<>>
    /\ cmd[2] # <<>>
    /\ task[0] = "raised"

\* C19: within one array dispatch a log file is open for writing in at most
\* one _run_task call at a time, the one whose task id names the file and
\* whose task process is running; the dispatcher opens none.
C19_LogFileExclusive ==
    ~single =>
        /\ \A i, j \in TaskIds :
              (i # j /\ log_open[i] # <<>> /\ log_open[j] # <<>>) =>
                  log_open[i] # log_open[j]
        /\ \A i \in TaskIds :
              log_open[i] # <<>> =>
                  /\ log_open[i][2] = i
                  /\ task[i] = "running"
                  /\ i \in Range(futures)

C19_Witness ==
    /\ ~single
    /\ Cardinality({i \in TaskIds : log_open[i] # <<>>}) >= 2
    /\ \E i \in TaskIds : task[i] = "exited" /\ log_open[i] = <<>>

\* submit() has built its command and started it
Submitting == pc \in {"submit_run", "submitted"}

\* C15: once submit() has built its command, the command is the header,
\* the submit entry point, --workdir <path> and --parameter_file <path>, in
\* that order, where the header is empty when login is true and otherwise
\* the submit header of the backend variant: empty for the generic Cluster,
\* the sbatch directives (job name, output and error log, one task, the
\* submit_to partition, the walltime) for Bscc.
C15_SubmitCommand ==
    Submitting =>
        /\ Len(submit_call) = 6
        /\ submit_call[1] =
              (IF login \/ backend.system = "cluster" THEN <<>>
               ELSE <<"sbatch",
                      "--job-name=", backend.title,
                      "--output=", "output_log",
                      "--error=", "output_log",
                      "--ntasks=1",
                      "--partition=", backend.submit_to,
                      "--time=", backend.walltime>>)
        /\ submit_call[2] = submit_workflow
        /\ submit_call[3] = "--workdir"
        /\ submit_call[4] = "workdir"
        /\ submit_call[5] = "--parameter_file"
        /\ submit_call[6] = "parameter_file"

\* a Bscc has submitted with login=True: the command has no sbatch header
C15_Witness ==
    /\ pc = "submit_run"
    /\ backend.system = "bscc"
    /\ login
    /\ submit_call[1] = <<>>

Malformed(g) == g.type # "NoneType" /\ ~(g.type = "int" /\ g.val >= 1)

\* C18: a Bscc configured with an ngpus that is set but is not a positive
\* integer never gets past validation: it is never accepted and no submit
\* command is ever started for it.
C18_MalformedGpusRejected ==
    (backend.system = "bscc" /\ Malformed(ngpus)) =>
        pc \in {"constructed", "config_error"}

\* C20: once submit() has started the submission command, every output log
\* and parameter file that existed when submit() was called has been
\* copied.
C20_ExistingFilesCopied ==
    Submitting =>
        \A src \in {"output_log", "par_file"} : files[src] => src \in copied

\* C23: when an array dispatch has ended and the call of at least one task
\* raised an exception, run() has not returned normally and has not exited
\* with a failure report: it was left by the exception of the first such
\* task in task id order, after the results of the smaller task ids were
\* collected.
C23_ExceptionNotMasked ==
    (pc = "done" /\ ~single /\ AnyRaised) =>
        /\ outcome = "raised"
        /\ critical = 0
        /\ nfut \in 1 .. Len(futures)
        /\ task[futures[nfut]] = "raised"
        /\ \A k \in 1 .. (nfut - 1) : task[futures[k]] = "exited"

\* the call of task 1 raised after task 0 ended with a non-zero status:
\* run() was left by the exception
C23_Witness ==
    /\ pc = "done"
    /\ ~single
    /\ task[0] = "exited"
    /\ status[0] # 0
    /\ task[1] = "raised"
    /\ outcome = "raised"

\* C24: after construction the concurrency cap ntask_max is at least 1.
C24_NtaskMaxPositive == ntask_max >= 1

\* run(single=False) has submitted its array to the pool
ArraySubmitted == ~single /\ futures # <<>>

\* C22 as stated: an array dispatch whose task processes all end eventually
\* finishes by returning normally or by exiting with the failure report.
C22_ReturnsOrExits ==
    ArraySubmitted ~> (pc = "done" /\ outcome \in {"returned", "exit"})

\* C22 as amended: an array dispatch whose task processes all end
\* eventually finishes: run() returns normally, exits with the failure
\* report, or is left by the exception of a task call.
C22_ArrayFinishes ==
    ArraySubmitted ~>
        (pc = "done" /\ outcome \in {"returned", "exit", "raised"})

\* an array dispatch of two or more tasks has finished after every task
\* process ended, one of them with a non-zero status
C22_Witness ==
    /\ pc = "done"
    /\ ~single
    /\ ntask >= 2
    /\ \A i \in Dispatched : task[i] = "exited"
    /\ outcome = "exit"

\* C21: a call of the submit header or of the run header leaves every field
\* of the backend as it was, and when it has the operation and arguments of
\* the call before it, it returns the same text.
C21_HeadersPure ==
    [][ncalls' = ncalls + 1 =>
          /\ backend' = backend
          /\ tasktime' = tasktime
          /\ ntask' = ntask
          /\ ntask_max' = ntask_max
          /\ (/\ header_call'.op = header_call.op
              /\ header_call'.args = header_call.args) =>
                 header_call'.result = header_call.result]_vars

\* the run header of a Bscc was called twice with the same arguments and
\* returned the same text
C21_Witness ==
    /\ ncalls = 2
    /\ backend.system = "bscc"
    /\ header_call.op = "run_call"
    /\ prev_call.op = "run_call"
    /\ header_call.args = prev_call.args
    /\ header_call.result = prev_call.result

\* the last header call was the run header of a Bscc
BsccRunHeader == backend.system = "bscc" /\ header_call.op = "run_call"

\* the scheduler flags a Bscc was configured with, as a text
configured_flags ==
    IF config.slurm_args = <<"None">> THEN <<>> ELSE config.slurm_args

\* C25: in the run header of a Bscc configured with a positive integer
\* ngpus, the scheduler flags are the configured slurm_args followed by
\* --gpus=<ngpus>, with a space between the two when slurm_args is not
\* empty; with ngpus not given they are exactly the configured slurm_args.
C25_GpusOwnFlag ==
    BsccRunHeader =>
        /\ (ngpus.type = "int" /\ ngpus.val >= 1) =>
              header_call.result[2] =
                  configured_flags
                  \o (IF configured_flags = <<>> THEN <<>> ELSE <<" ">>)
                  \o <<"--gpus=", ToString(ngpus.val)>>
        /\ ngpus.type = "NoneType" =>
              header_call.result[2] = configured_flags

\* C26: a Bscc keeps the configured partition, and its submit_to is the
\* configured submit_to, or the partition when none was given.  Its submit
\* header carries the job title, the partition submit_to and the time limit
\* walltime; its run header carries the job title, the partition
\* `partition` and the time limit tasktime, or the caller's tasktime when a
\* non-zero one is passed.
C26_PartitionsAndLimits ==
    backend.system = "bscc" =>
        /\ backend.partition = config.partition
        /\ backend.submit_to =
              (IF config.submit_to = "None" THEN config.partition
               ELSE config.submit_to)
        /\ header_call.op = "submit_call_header" =>
              /\ SubSeq(header_call.result, 2, 3) = <<"--job-name=", "run1">>
              /\ SubSeq(header_call.result, 9, 10) =
                    <<"--partition=", backend.submit_to>>
              /\ SubSeq(header_call.result, 11, 12) =
                    <<"--time=", backend.walltime>>
        /\ header_call.op = "run_call" =>
              /\ header_call.result[3] = <<"--job-name=", "run1">>
              /\ header_call.result[5] = <<"--partition=", backend.partition>>
              /\ header_call.result[6] =
                    <<"--time=",
                      IF header_call.args[4].given
                         /\ header_call.args[4].val # 0
                         THEN header_call.args[4].val
                         ELSE tasktime>>

\* a Bscc configured with partition gpu_4090 and no submit_to returned a
\* submit header for gpu_4090 and then a run header with the caller's
\* tasktime
C26_Witness ==
    /\ backend.system = "bscc"
    /\ config.partition = "gpu_4090"
    /\ config.submit_to = "None"
    /\ prev_call.op = "submit_call_header"
    /\ prev_call.result[10] = "gpu_4090"
    /\ header_call.op = "run_call"
    /\ header_call.result[5] = <<"--partition=", "gpu_4090">>
    /\ header_call.result[6] = <<"--time=", 5>>

\* an NLCG call has returned
NLCGReturned == nlcg_loaded # {}

\* C27: when an NLCG call has returned, the counter is in 1..itermax, the
\* file NLCG/iter holds the counter, and fewer than itermax calls have been
\* made since the first call or the last restart.
C27_CounterInRange ==
    NLCGReturned =>
        /\ nlcg.iter \in 1 .. nlcg.itermax
        /\ iter_file = nlcg.iter
        /\ quiet <= nlcg.itermax - 1

\* with itermax = 3 the counter has reached 3, two calls after a restart
\* or the first call
C27_Witness ==
    /\ NLCGReturned
    /\ nlcg.itermax = 3
    /\ nlcg.iter = 3
    /\ iter_file = 3
    /\ quiet = 2

\* C28: an NLCG call returns flag 1 exactly when it called restart(), which
\* leaves the counter at 1, and the direction it then returns is -g_new;
\* the call that finds the counter at 0 returns -g_new with flag 0 and
\* loads g_new only.
C28_FlagIffRestart ==
    NLCGReturned =>
        /\ nlcg_ret.flag = 1 <=> nlcg_restart >= 1
        /\ nlcg_ret.flag \in {0, 1}
        /\ nlcg_restart >= 1 => nlcg.iter = 1
        /\ nlcg_ret.flag = 1 =>
              \A j \in 1 .. Len(nlcg_ret.g_new) :
                  nlcg_ret.dir.vec[j] = -nlcg_ret.dir.den * nlcg_ret.g_new[j]
        /\ (nlcg_restart = 0 /\ quiet = 0) =>
              /\ nlcg_ret.flag = 0
              /\ nlcg_ret.dir =
                    [vec |-> [j \in 1 .. Len(nlcg_ret.g_new) |->
                                 -nlcg_ret.g_new[j]],
                     den |-> 1]
              /\ nlcg_loaded = {"g_new"}
              /\ nlcg.iter = 1

\* a call that computed the search direction restarted: it returned -g_new
\* with flag 1
C28_Witness ==
    /\ nlcg_loaded = {"g_new", "g_old", "p_old"}
    /\ nlcg_restart = 1
    /\ nlcg_ret.flag = 1
    /\ nlcg_ret.dir.vec = <<-nlcg_ret.g_new[1]>>
    /\ nlcg.iter = 1

\* every character of `regions` is 1, 2 or 3 and smooth_type is laplacian
\* or gaussian
ValidSolver ==
    /\ \A j \in 1 .. Len(solver.regions) : solver.regions[j] \in {"1", "2", "3"}
    /\ solver.smooth_type \in {"laplacian", "gaussian"}

\* C29: check() accepts the solver only if every character of `regions` is
\* 1, 2 or 3 and smooth_type is laplacian or gaussian, and it ends every
\* other solver with an AssertionError whose message names smooth_type or
\* regions.
C29_CheckAssertsValid ==
    /\ pc \in {"idle", "combined", "smoothed"} => ValidSolver
    /\ (pc # "constructed" /\ ~ValidSolver) =>
          /\ pc = "config_error"
          /\ check_error = "AssertionError"
          /\ config_error \in {"smooth_type", "regions"}

\* the base material parameters of the solver
base_parameters ==
    {solver.base[j] : j \in 1 .. Len(solver.base)}
    \cup {material_parameters(solver.materials)[j] :
             j \in 1 .. Len(material_parameters(solver.materials))}

\* the names reg<r>_<p> for the characters r of regions and the base
\* material parameters p
region_names ==
    {<<"r", "e", "g", solver.regions[j], "_">> \o name :
        j \in 1 .. Len(solver.regions), name \in base_parameters}

\* C30: the parameter list of a constructed solver is the set of names
\* reg<r>_<p>, each once and in ascending order, and the stripped
\* parameters of combine() and smooth() are exactly the base material
\* parameters, none of them empty.
C30_ParametersAndStrip ==
    /\ {solver._parameters[j] : j \in 1 .. Len(solver._parameters)}
          = region_names
    /\ Len(solver._parameters) = Cardinality(region_names)
    /\ \A j \in 1 .. (Len(solver._parameters) - 1) :
          str_less(solver._parameters[j], solver._parameters[j + 1])
    /\ pc \in {"combined", "smoothed"} =>
          /\ stripped = base_parameters
          /\ <<>> \notin stripped

====
